---- MODULE Spec2Model ----
(***************************************************************************)
(* The chat-session store of shiksha-setu (ChatProvider in                 *)
(* src/src/contexts/ChatContext.tsx) with its identity provider            *)
(* (AuthProvider) and the remote service it talks to.                      *)
(*                                                                         *)
(* Every async store operation is split where the code awaits: the call    *)
(* up to its first await is one action (it issues the request), and each   *)
(* continuation after an await is another.  A pending call keeps the       *)
(* values its closure captured when it was invoked (currentChat, chats):   *)
(* the code after an await reads those, not the current state, while the   *)
(* functional updaters setChats(prev => ...) read the current state.       *)
(***************************************************************************)
EXTENDS Integers, Sequences, FiniteSets, Bags, TLC

\* ---------------------------------------------------------------- bounds
\* Sessions the service creates in a run.
MaxChats == 2
\* Messages a session holds, on the service and in the provisional copy.
MaxMsgs == 3
\* Store calls that issue a request in a run of Spec.
MaxCalls == 3
\* Logins in a run.
MaxLogins == 2
\* Store calls that issue a request in a run of SpecCRUD.
MaxCrudCalls == 5

\* The number of requests issued in a run of rename and message-append alone.
MaxReconcileCalls == 4
\* The number of handleUpload clicks that issue a request in a run of the upload panel.
MaxPanelCalls == 2
\* The number of requests issued in a run of the store where every request settles.
MaxLiveCalls == 3
\* The number of entries a batch reaches in a run of the upload panel with the store.
MaxPanelBatch == 2
\* The number of entries a selection and the batch it joins hold together in a
\* run of the upload panel alone.
MaxBatch == 13

\* UploadPanel: the limits of lines 26, 35 and 59.
MaxFileMB == 5

MaxFiles == 10

MaxUrls == 10

\* ------------------------------------------------------------------ data
Null == [id |-> 0, title |-> "", messages |-> <<>>, updatedAt |-> "none"]

NoUser == "none"

TheUser == "u"

DefaultTitle == "New Chat"

Titles == {"T"}

Contents == {"hi", " "}

\* A request settles with a success response, a non-success response, or a network failure.
Outcomes == {"ok", "rejected", "neterr"}

\* Same, where the code treats both failures alike: if (!response.ok) throw, inside the try
\* whose catch also takes a rejected fetch.
Outcomes2 == {"ok", "failed"}

Message(id, role, content) == [id |-> id, role |-> role, content |-> content]

TempMessage(content) == Message("temp", "user", content)

trim(s) == IF s \in {"", " "} THEN "" ELSE s

\* ------------------------------------------------------- sequence helpers
RECURSIVE filter(_, _)
filter(s, chatId) ==
    IF s = <<>> THEN <<>>
    ELSE IF Head(s).id # chatId THEN <<Head(s)>> \o filter(Tail(s), chatId)
    ELSE filter(Tail(s), chatId)

replaceById(s, updatedChat) ==
    [i \in 1..Len(s) |-> IF s[i].id = updatedChat.id THEN updatedChat ELSE s[i]]

replaceAtOrAdd(s, chatId, updatedChat) ==
    IF chatId \in {s[i].id : i \in 1..Len(s)}
    THEN [i \in 1..Len(s) |-> IF s[i].id = chatId THEN updatedChat ELSE s[i]]
    ELSE <<updatedChat>> \o s

replaceAt(s, chatId, updatedChat) ==
    [i \in 1..Len(s) |-> IF s[i].id = chatId THEN updatedChat ELSE s[i]]

Ids(s) == {s[i].id : i \in 1..Len(s)}

first(s) == IF Len(s) > 0 THEN s[1] ELSE Null

find(s, chatId) ==
    IF chatId \in Ids(s)
    THEN s[CHOOSE i \in 1..Len(s) : s[i].id = chatId /\ \A j \in 1..(i - 1) : s[j].id # chatId]
    ELSE Null

\* --------------------------------------------------------------- state
VARIABLES
    user,            \* AuthProvider: the identity, NoUser when absent
    token,           \* localStorage "auth_token" is present
    authPending,     \* a GET /auth/me of a login is outstanding
    chats,           \* ChatProvider: the mapping, in display order
    currentChat,     \* ChatProvider: the active session, Null when unset
    isLoading,       \* ChatProvider: `responding`
    uploadingFiles,
    processingFiles,
    ops,             \* the bag of pending calls, each suspended at an await
    srvChats,        \* the remote service's sessions, newest first
    nextId,          \* the remote service's next session id
    last,            \* the step taken last: its name, the call it resumed
    toasts,          \* the notifications the last step raised
    calls,           \* store calls that issued a request so far
    logins,          \* logins so far
    budget,          \* how many store calls may issue a request in this run
    batchCap,        \* how many entries a batch of the panel may reach in this run
    files,           \* UploadPanel: the pending file batch, each file by its size in MB
    urls,            \* UploadPanel: the pending URL batch
    currentUrl       \* UploadPanel: the text of the URL input

vars == <<user, token, authPending, chats, currentChat, isLoading, uploadingFiles,
          processingFiles, ops, srvChats, nextId, last, toasts, calls, logins, budget,
          batchCap, files, urls, currentUrl>>

authVars == <<user, token, authPending>>

flagVars == <<isLoading, uploadingFiles, processingFiles>>

srvVars == <<srvChats, nextId>>

budgetVars == <<calls, logins, budget, batchCap>>

panelVars == <<files, urls, currentUrl>>

NoOp == [kind |-> "none", phase |-> "none", chatId |-> 0, arg |-> "", capCur |-> Null,
         capChats |-> <<>>, outcome |-> "ok", resp |-> Null, respList |-> <<>>,
         urls |-> <<>>, panel |-> FALSE, capUser |-> NoUser, capUrls |-> <<>>]

Step(act, o) == [act |-> act, op |-> o]

\* -------------------------------------------------- the remote service
srvCreate == [id |-> nextId, title |-> DefaultTitle, messages |-> <<>>, updatedAt |-> "srv"]

srvRename(chatId, newTitle) == [find(srvChats, chatId) EXCEPT !.title = newTitle]

srvAppend(chatId, content) ==
    [find(srvChats, chatId) EXCEPT
        !.messages = @ \o <<Message("srv", "user", content), Message("srv", "assistant", "reply")>>]

srvIngest(chatId) ==
    [find(srvChats, chatId) EXCEPT !.messages = @ \o <<Message("srv", "system", "processed")>>]

\* What the service can answer to a request on session chatId that grows it by n messages.
srvOutcomes(chatId, n) ==
    IF chatId \in Ids(srvChats) /\ Len(find(srvChats, chatId).messages) + n <= MaxMsgs
    THEN Outcomes2 ELSE Outcomes2 \ {"ok"}

CanIssue == calls < budget

Pending == BagToSet(ops)

Put(b, o) == b (+) SetToBag({o})

Take(b, o) == b (-) SetToBag({o})

Init ==
    /\ user = NoUser
    /\ token = FALSE
    /\ authPending = FALSE
    /\ chats = <<>>
    /\ currentChat = Null
    /\ isLoading = FALSE
    /\ uploadingFiles = FALSE
    /\ processingFiles = FALSE
    /\ ops = EmptyBag
    /\ srvChats = <<>>
    /\ nextId = 1
    /\ last = Step("init", NoOp)
    /\ toasts = <<>>
    /\ calls = 0
    /\ logins = 0
    /\ budget = MaxCalls
    /\ batchCap = 0
    /\ files = <<>>
    /\ urls = <<>>
    /\ currentUrl = ""

\* ------------------------------------------------------- AuthProvider
\* login(): POST /auth/login succeeded, the token is stored and GET /auth/me issued.
login ==
    /\ logins < MaxLogins
    /\ logins' = logins + 1
    /\ user = NoUser
    /\ ~authPending
    /\ token' = TRUE
    /\ authPending' = TRUE
    /\ last' = Step("login", NoOp)
    /\ toasts' = <<>>
    /\ UNCHANGED <<panelVars, user, chats, currentChat, flagVars, ops, srvVars, calls, budget, batchCap>>

fetchChatsCallSkipped(tok) == {NoOp}

\* fetchChats() up to its await, run by the effect on [user] when a user is set.
fetchChatsCall(tok) ==
    IF tok
    THEN {[NoOp EXCEPT !.kind = "fetchChats", !.phase = "list", !.capCur = currentChat,
                       !.outcome = out, !.respList = IF out = "ok" THEN srvChats ELSE <<>>]
            : out \in Outcomes}
    ELSE {NoOp}

\* fetchUserProfile() after its await; on success setUser runs the effect on [user].
fetchUserProfileResponse ==
    /\ authPending
    /\ authPending' = FALSE
    /\ \E ok \in BOOLEAN :
        IF ok
        THEN /\ user' = TheUser
             /\ token' = token
             /\ \E o \in fetchChatsCall(token) :
                    /\ ops' = IF o = NoOp THEN ops ELSE Put(ops, o)
                    /\ last' = Step("fetchUserProfileOk", o)
        ELSE /\ user' = user
             /\ token' = FALSE
             /\ ops' = ops
             /\ last' = Step("fetchUserProfileFailed", NoOp)
    /\ toasts' = <<>>
    /\ UNCHANGED <<panelVars, chats, currentChat, flagVars, srvVars, budgetVars>>

resetEffectKeepsActive == [chats |-> <<>>, currentChat |-> currentChat]

\* The effect on [user] when the user became absent: lines 64-68.
resetEffect == [chats |-> <<>>, currentChat |-> Null]

\* logout(), and the effect on [user] that React runs when the click's update is flushed.
logout ==
    /\ user # NoUser
    /\ token' = FALSE
    /\ user' = NoUser
    /\ chats' = resetEffect.chats
    /\ currentChat' = resetEffect.currentChat
    /\ last' = Step("logout", [NoOp EXCEPT !.capCur = currentChat, !.capChats = chats])
    /\ toasts' = <<"success">>
    /\ UNCHANGED <<panelVars, authPending, flagVars, ops, srvVars, budgetVars>>

\* fetchChats() after its await.
fetchChatsResponse ==
    \E o \in Pending :
        /\ o.kind = "fetchChats"
        /\ ops' = Take(ops, o)
        /\ last' = Step("fetchChatsResponse", o)
        /\ IF o.outcome = "ok"
           THEN /\ chats' = o.respList
                /\ currentChat' = IF o.capCur = Null /\ Len(o.respList) > 0
                                  THEN o.respList[1] ELSE currentChat
                /\ toasts' = <<>>
           ELSE /\ UNCHANGED <<chats, currentChat>>
                /\ toasts' = IF o.outcome = "neterr" THEN <<"error">> ELSE <<>>
        /\ UNCHANGED <<panelVars, authVars, flagVars, srvVars, budgetVars>>

\* -------------------------------------------------------- ChatProvider
\* createChat() up to its await.
createChat ==
    IF user = NoUser
    THEN /\ toasts' = <<"error">>
         /\ last' = Step("createChatRejected", NoOp)
         /\ UNCHANGED <<panelVars, authVars, chats, currentChat, flagVars, ops, srvVars, budgetVars>>
    ELSE IF ~token
    THEN /\ toasts' = <<>>
         /\ last' = Step("createChatNoToken", NoOp)
         /\ UNCHANGED <<panelVars, authVars, chats, currentChat, flagVars, ops, srvVars, budgetVars>>
    ELSE /\ CanIssue
         /\ nextId <= MaxChats
         /\ \E out \in Outcomes2 :
              LET o == [NoOp EXCEPT !.kind = "createChat", !.phase = "create", !.chatId = nextId,
                                    !.outcome = out,
                                    !.resp = IF out = "ok" THEN srvCreate ELSE Null]
              IN /\ ops' = Put(ops, o)
                 /\ last' = Step("createChat", o)
                 /\ srvChats' = IF out = "ok" THEN <<srvCreate>> \o srvChats ELSE srvChats
                 /\ nextId' = IF out = "ok" THEN nextId + 1 ELSE nextId
         /\ toasts' = <<>>
         /\ calls' = calls + 1
         /\ UNCHANGED <<panelVars, authVars, chats, currentChat, flagVars, logins, budget, batchCap>>

createChatOkAtEnd(o) == [chats |-> chats \o <<o.resp>>, currentChat |-> o.resp]

\* createChat() on a success response: lines 117-119.
createChatOk(o) == [chats |-> <<o.resp>> \o chats, currentChat |-> o.resp]

\* createChat() after its await.
createChatResponse ==
    \E o \in Pending :
        /\ o.kind = "createChat"
        /\ ops' = Take(ops, o)
        /\ last' = Step("createChatResponse", o)
        /\ IF o.outcome = "ok"
           THEN /\ chats' = createChatOk(o).chats
                /\ currentChat' = createChatOk(o).currentChat
                /\ toasts' = <<>>
           ELSE /\ UNCHANGED <<chats, currentChat>>
                /\ toasts' = <<"error">>
        /\ UNCHANGED <<panelVars, authVars, flagVars, srvVars, budgetVars>>

\* setCurrentChat(chat), called by the sidebar with an entry of the rendered list.
setCurrentChat ==
    \E i \in 1..Len(chats) :
        /\ currentChat # chats[i]
        /\ currentChat' = chats[i]
        /\ last' = Step("setCurrentChat", [NoOp EXCEPT !.chatId = chats[i].id])
        /\ toasts' = <<>>
        /\ UNCHANGED <<panelVars, authVars, chats, flagVars, ops, srvVars, budgetVars>>

\* sendMessage(): the guard of lines 130-133.
sendMessageAccepts(content) == user # NoUser /\ currentChat # Null

chatCopyUnchanged(content) == currentChat

\* sendMessage(): the provisional copy of lines 142-153.
chatCopy(content) ==
    [currentChat EXCEPT !.messages = @ \o <<TempMessage(content)>>, !.updatedAt = "local"]

\* sendMessage(content) up to its await.
sendMessage ==
    \E content \in Contents :
        LET call == [NoOp EXCEPT !.arg = content] IN
        IF ~sendMessageAccepts(content)
        THEN /\ toasts' = <<"error">>
             /\ last' = Step("sendMessageRejected", call)
             /\ UNCHANGED <<panelVars, authVars, chats, currentChat, flagVars, ops, srvVars, budgetVars>>
        ELSE IF ~token
        THEN /\ toasts' = <<>>
             /\ last' = Step("sendMessageNoToken", call)
             /\ UNCHANGED <<panelVars, authVars, chats, currentChat, flagVars, ops, srvVars, budgetVars>>
        ELSE /\ CanIssue
             /\ Len(currentChat.messages) < MaxMsgs
             /\ isLoading' = TRUE
             /\ currentChat' = chatCopy(content)
             /\ \E out \in srvOutcomes(currentChat.id, 2) :
                  LET o == [call EXCEPT !.kind = "sendMessage", !.phase = "append",
                                        !.chatId = currentChat.id, !.outcome = out,
                                        !.resp = IF out = "ok"
                                                 THEN srvAppend(currentChat.id, content)
                                                 ELSE Null]
                  IN /\ ops' = Put(ops, o)
                     /\ last' = Step("sendMessage", o)
                     /\ srvChats' = IF out = "ok" THEN replaceById(srvChats, o.resp)
                                    ELSE srvChats
             /\ toasts' = <<>>
             /\ calls' = calls + 1
             /\ UNCHANGED <<panelVars, authVars, chats, uploadingFiles, processingFiles, nextId, logins, budget, batchCap>>

sendMessageOkListOnly(o) == [chats |-> replaceById(chats, o.resp), currentChat |-> currentChat]

\* sendMessage() on a success response: lines 173-177.
sendMessageOk(o) == [chats |-> replaceById(chats, o.resp), currentChat |-> o.resp]

sendMessageFinallyOnSuccess(o) == IF o.outcome = "ok" THEN FALSE ELSE isLoading

\* sendMessage(): the finally block, line 182.
sendMessageFinally(o) == FALSE

\* sendMessage(): the catch block, lines 178-180.
sendMessageCatch(o) == [chats |-> chats, currentChat |-> currentChat, toasts |-> <<"error">>]

\* sendMessage() after its await.
sendMessageResponse ==
    \E o \in Pending :
        /\ o.kind = "sendMessage"
        /\ ops' = Take(ops, o)
        /\ last' = Step("sendMessageResponse", o)
        /\ IF o.outcome = "ok"
           THEN /\ chats' = sendMessageOk(o).chats
                /\ currentChat' = sendMessageOk(o).currentChat
                /\ toasts' = <<>>
           ELSE /\ chats' = sendMessageCatch(o).chats
                /\ currentChat' = sendMessageCatch(o).currentChat
                /\ toasts' = sendMessageCatch(o).toasts
        /\ isLoading' = sendMessageFinally(o)
        /\ UNCHANGED <<panelVars, authVars, uploadingFiles, processingFiles, srvVars, budgetVars>>

\* deleteChat(chatId) up to its await, called by the sidebar on an entry of the list.
deleteChat ==
    \E chatId \in Ids(chats) :
        LET call == [NoOp EXCEPT !.chatId = chatId] IN
        IF ~token
        THEN /\ toasts' = <<>>
             /\ last' = Step("deleteChatNoToken", call)
             /\ UNCHANGED <<panelVars, authVars, chats, currentChat, flagVars, ops, srvVars, budgetVars>>
        ELSE /\ CanIssue
             /\ \E out \in srvOutcomes(chatId, 0) :
                  LET o == [call EXCEPT !.kind = "deleteChat", !.phase = "delete",
                                        !.capCur = currentChat, !.capChats = chats,
                                        !.outcome = out]
                  IN /\ ops' = Put(ops, o)
                     /\ last' = Step("deleteChat", o)
                     /\ srvChats' = IF out = "ok" THEN filter(srvChats, chatId) ELSE srvChats
             /\ toasts' = <<>>
             /\ calls' = calls + 1
             /\ UNCHANGED <<panelVars, authVars, chats, currentChat, flagVars, nextId, logins, budget, batchCap>>

deleteChatOkStaleList(o) ==
    [chats |-> filter(o.capChats, o.chatId),
     currentChat |-> IF o.capCur.id = o.chatId
                     THEN first(filter(o.capChats, o.chatId))
                     ELSE currentChat]

\* deleteChat() on a success response: lines 199-204.
deleteChatOk(o) ==
    [chats |-> filter(chats, o.chatId),
     currentChat |-> IF o.capCur.id = o.chatId
                     THEN first(filter(o.capChats, o.chatId))
                     ELSE currentChat]

deleteChatCatchRemoves(o) ==
    [chats |-> filter(chats, o.chatId), currentChat |-> currentChat, toasts |-> <<"error">>]

\* deleteChat(): the catch block, lines 208-211.
deleteChatCatch(o) == [chats |-> chats, currentChat |-> currentChat, toasts |-> <<"error">>]

\* deleteChat() after its await.
deleteChatResponse ==
    \E o \in Pending :
        /\ o.kind = "deleteChat"
        /\ ops' = Take(ops, o)
        /\ last' = Step("deleteChatResponse", o)
        /\ IF o.outcome = "ok"
           THEN /\ chats' = deleteChatOk(o).chats
                /\ currentChat' = deleteChatOk(o).currentChat
                /\ toasts' = <<>>
           ELSE /\ chats' = deleteChatCatch(o).chats
                /\ currentChat' = deleteChatCatch(o).currentChat
                /\ toasts' = deleteChatCatch(o).toasts
        /\ UNCHANGED <<panelVars, authVars, flagVars, srvVars, budgetVars>>

\* renameChat(chatId, newTitle) up to its await, called by the sidebar on an entry of the list.
renameChat ==
    \E chatId \in Ids(chats), newTitle \in Titles :
        LET call == [NoOp EXCEPT !.chatId = chatId, !.arg = newTitle] IN
        IF ~token
        THEN /\ toasts' = <<>>
             /\ last' = Step("renameChatNoToken", call)
             /\ UNCHANGED <<panelVars, authVars, chats, currentChat, flagVars, ops, srvVars, budgetVars>>
        ELSE /\ CanIssue
             /\ \E out \in srvOutcomes(chatId, 0) :
                  LET o == [call EXCEPT !.kind = "renameChat", !.phase = "patch",
                                        !.capCur = currentChat, !.outcome = out,
                                        !.resp = IF out = "ok" THEN srvRename(chatId, newTitle)
                                                 ELSE Null]
                  IN /\ ops' = Put(ops, o)
                     /\ last' = Step("renameChat", o)
                     /\ srvChats' = IF out = "ok" THEN replaceById(srvChats, o.resp)
                                    ELSE srvChats
             /\ toasts' = <<>>
             /\ calls' = calls + 1
             /\ UNCHANGED <<panelVars, authVars, chats, currentChat, flagVars, nextId, logins, budget, batchCap>>

renameChatOkToFront(o) ==
    [chats |-> <<o.resp>> \o filter(chats, o.chatId),
     currentChat |-> IF o.capCur.id = o.chatId THEN o.resp ELSE currentChat]

\* renameChat() on a success response: lines 229-235.
renameChatOk(o) ==
    [chats |-> replaceAt(chats, o.chatId, o.resp),
     currentChat |-> IF o.capCur.id = o.chatId THEN o.resp ELSE currentChat]

\* renameChat() after its await.
renameChatResponse ==
    \E o \in Pending :
        /\ o.kind = "renameChat"
        /\ ops' = Take(ops, o)
        /\ last' = Step("renameChatResponse", o)
        /\ IF o.outcome = "ok"
           THEN /\ chats' = renameChatOk(o).chats
                /\ currentChat' = renameChatOk(o).currentChat
                /\ toasts' = <<>>
           ELSE /\ UNCHANGED <<chats, currentChat>>
                /\ toasts' = <<"error">>
        /\ UNCHANGED <<panelVars, authVars, flagVars, srvVars, budgetVars>>

\* uploadDocuments() / addWebsites(): the guard of lines 246-249 and 306-309.
ingestAccepts == user # NoUser /\ currentChat # Null

\* GET /chats/{id} as the service answers it when the follow-up fetch is issued.
fetchChatCall(o) ==
    {[o EXCEPT !.phase = "fetch", !.outcome = out,
               !.resp = IF out = "ok" THEN find(srvChats, o.chatId) ELSE Null]
        : out \in IF o.chatId \in Ids(srvChats) THEN Outcomes ELSE Outcomes \ {"ok"}}

fetchChatOkMerged(o) ==
    [chats |-> replaceById(chats, o.resp),
     currentChat |-> [currentChat EXCEPT !.messages = @ \o o.resp.messages]]

\* The reconciliation of the follow-up fetch: lines 289-293 and 341-345.
fetchChatOk(o) == [chats |-> replaceById(chats, o.resp), currentChat |-> o.resp]

\* uploadDocuments(files) up to its first await, as called by `call`.
uploadDocumentsBy(call) ==
    IF ~ingestAccepts
    THEN /\ toasts' = <<"error">>
         /\ last' = Step("uploadDocumentsRejected", call)
         /\ UNCHANGED <<panelVars, authVars, chats, currentChat, flagVars, ops, srvVars, budgetVars>>
    ELSE IF ~token
    THEN /\ toasts' = <<>>
         /\ last' = Step("uploadDocumentsNoToken", call)
         /\ UNCHANGED <<panelVars, authVars, chats, currentChat, flagVars, ops, srvVars, budgetVars>>
    ELSE /\ CanIssue
         /\ uploadingFiles' = TRUE
         /\ \E out \in srvOutcomes(currentChat.id, 1) :
              LET o == [call EXCEPT !.kind = "uploadDocuments", !.phase = "upload",
                                    !.chatId = currentChat.id, !.outcome = out]
              IN /\ ops' = Put(ops, o)
                 /\ last' = Step("uploadDocuments", o)
                 /\ srvChats' = IF out = "ok" THEN replaceById(srvChats, srvIngest(o.chatId))
                                ELSE srvChats
         /\ toasts' = <<>>
         /\ calls' = calls + 1
         /\ UNCHANGED <<panelVars, authVars, chats, currentChat, isLoading, processingFiles, nextId, logins, budget, batchCap>>

\* uploadDocuments(files) called on the store.
uploadDocuments == uploadDocumentsBy(NoOp)

uploadDocumentsFinallyFileOnly == [uploadingFiles |-> FALSE, processingFiles |-> processingFiles]

\* uploadDocuments(): the finally block, lines 300-301.
uploadDocumentsFinally == [uploadingFiles |-> FALSE, processingFiles |-> FALSE]

uploadResponseUnchecked(o) == TRUE

\* uploadDocuments(): the test of the upload response, lines 270-272.
uploadResponseOk(o) == o.outcome = "ok"

\* The add request of the addWebsites(urls) that handleUpload calls once its
\* uploadDocuments has settled, with the store function of the render of the
\* click: the session and the batch are those captured then (lines 306-324).
staleAddWebsites(o) ==
    {[NoOp EXCEPT !.kind = "addWebsites", !.phase = "upload", !.chatId = o.capCur.id,
                  !.outcome = out, !.urls = o.capUrls, !.panel = TRUE,
                  !.capCur = o.capCur, !.capUser = o.capUser]
        : out \in srvOutcomes(o.capCur.id, 1)}

\* An uploadDocuments call settles with the notifications `notice`, leaving
\* the calls `rest` pending. When handleUpload made the call it resumes (lines
\* 89-93): it empties the file batch and, if the URL batch of the click was
\* not empty, calls addWebsites, which runs up to its await.
uploadDocumentsSettles(o, rest, notice) ==
    /\ uploadingFiles' = uploadDocumentsFinally.uploadingFiles
    /\ currentUrl' = currentUrl
    /\ nextId' = nextId
    /\ IF ~o.panel
       THEN /\ processingFiles' = uploadDocumentsFinally.processingFiles
            /\ ops' = rest
            /\ toasts' = notice
            /\ UNCHANGED <<files, urls, srvChats>>
       ELSE /\ files' = <<>>
            /\ IF o.capUrls = <<>>
               THEN /\ processingFiles' = uploadDocumentsFinally.processingFiles
                    /\ ops' = rest
                    /\ toasts' = notice
                    /\ UNCHANGED <<urls, srvChats>>
               ELSE IF o.capUser = NoUser \/ o.capCur = Null
               THEN /\ processingFiles' = uploadDocumentsFinally.processingFiles
                    /\ ops' = rest
                    /\ toasts' = notice \o <<"error">>
                    /\ urls' = <<>>
                    /\ srvChats' = srvChats
               ELSE IF ~token
               THEN /\ processingFiles' = uploadDocumentsFinally.processingFiles
                    /\ ops' = rest
                    /\ toasts' = notice
                    /\ urls' = <<>>
                    /\ srvChats' = srvChats
               ELSE /\ processingFiles' = TRUE
                    /\ \E w \in staleAddWebsites(o) :
                         /\ ops' = Put(rest, w)
                         /\ srvChats' = IF w.outcome = "ok"
                                        THEN replaceById(srvChats, srvIngest(w.chatId))
                                        ELSE srvChats
                    /\ toasts' = notice
                    /\ urls' = urls

\* uploadDocuments() after the await of the upload request.
uploadDocumentsResponse ==
    \E o \in Pending :
        /\ o.kind = "uploadDocuments" /\ o.phase = "upload"
        /\ last' = Step("uploadDocumentsResponse", o)
        /\ IF uploadResponseOk(o)
           THEN /\ processingFiles' = TRUE
                /\ uploadingFiles' = uploadingFiles
                /\ ops' = Put(Take(ops, o), [o EXCEPT !.phase = "wait"])
                /\ toasts' = <<>>
                /\ UNCHANGED <<panelVars, srvVars>>
           ELSE uploadDocumentsSettles(o, Take(ops, o), <<"error">>)
        /\ UNCHANGED <<authVars, chats, currentChat, isLoading, budgetVars>>

\* uploadDocuments() after the 2000 ms wait: the follow-up fetch is issued.
uploadDocumentsFetch ==
    \E o \in Pending :
        /\ o.kind = "uploadDocuments" /\ o.phase = "wait"
        /\ \E f \in fetchChatCall(o) :
              /\ ops' = Put(Take(ops, o), f)
              /\ last' = Step("uploadDocumentsFetch", f)
        /\ toasts' = <<>>
        /\ UNCHANGED <<panelVars, authVars, chats, currentChat, flagVars, srvVars, budgetVars>>

\* uploadDocuments() after the await of the follow-up fetch.
uploadDocumentsFetched ==
    \E o \in Pending :
        /\ o.kind = "uploadDocuments" /\ o.phase = "fetch"
        /\ last' = Step("uploadDocumentsFetched", o)
        /\ IF o.outcome = "ok"
           THEN /\ chats' = fetchChatOk(o).chats
                /\ currentChat' = fetchChatOk(o).currentChat
           ELSE UNCHANGED <<chats, currentChat>>
        /\ uploadDocumentsSettles(o, Take(ops, o),
                                  IF o.outcome = "neterr" THEN <<"error">> ELSE <<"success">>)
        /\ UNCHANGED <<authVars, isLoading, budgetVars>>

\* addWebsites(urls) up to its first await, as called by `call`.
addWebsitesBy(call) ==
    IF ~ingestAccepts
    THEN /\ toasts' = <<"error">>
         /\ last' = Step("addWebsitesRejected", call)
         /\ UNCHANGED <<panelVars, authVars, chats, currentChat, flagVars, ops, srvVars, budgetVars>>
    ELSE IF ~token
    THEN /\ toasts' = <<>>
         /\ last' = Step("addWebsitesNoToken", call)
         /\ UNCHANGED <<panelVars, authVars, chats, currentChat, flagVars, ops, srvVars, budgetVars>>
    ELSE /\ CanIssue
         /\ processingFiles' = TRUE
         /\ \E out \in srvOutcomes(currentChat.id, 1) :
              LET o == [call EXCEPT !.kind = "addWebsites", !.phase = "upload",
                                    !.chatId = currentChat.id, !.outcome = out]
              IN /\ ops' = Put(ops, o)
                 /\ last' = Step("addWebsites", o)
                 /\ srvChats' = IF out = "ok" THEN replaceById(srvChats, srvIngest(o.chatId))
                                ELSE srvChats
         /\ toasts' = <<>>
         /\ calls' = calls + 1
         /\ UNCHANGED <<panelVars, authVars, chats, currentChat, isLoading, uploadingFiles, nextId, logins, budget, batchCap>>

\* addWebsites(urls) called on the store.
addWebsites == addWebsitesBy(NoOp)

\* addWebsites(): the finally block, line 352.
addWebsitesFinally == FALSE

\* An addWebsites call settles; when handleUpload made the call it resumes
\* and empties the URL batch (line 94).
addWebsitesSettles(o) ==
    /\ processingFiles' = addWebsitesFinally
    /\ ops' = Take(ops, o)
    /\ urls' = IF o.panel THEN <<>> ELSE urls
    /\ UNCHANGED <<files, currentUrl>>

\* addWebsites() after the await of the add request.
addWebsitesResponse ==
    \E o \in Pending :
        /\ o.kind = "addWebsites" /\ o.phase = "upload"
        /\ last' = Step("addWebsitesResponse", o)
        /\ IF o.outcome = "ok"
           THEN /\ processingFiles' = processingFiles
                /\ ops' = Put(Take(ops, o), [o EXCEPT !.phase = "wait"])
                /\ toasts' = <<>>
                /\ UNCHANGED panelVars
           ELSE /\ addWebsitesSettles(o)
                /\ toasts' = <<"error">>
        /\ UNCHANGED <<authVars, chats, currentChat, isLoading, uploadingFiles, srvVars,
                       budgetVars>>

\* addWebsites() after the 2500 ms wait: the follow-up fetch is issued.
addWebsitesFetch ==
    \E o \in Pending :
        /\ o.kind = "addWebsites" /\ o.phase = "wait"
        /\ \E f \in fetchChatCall(o) :
              /\ ops' = Put(Take(ops, o), f)
              /\ last' = Step("addWebsitesFetch", f)
        /\ toasts' = <<>>
        /\ UNCHANGED <<panelVars, authVars, chats, currentChat, flagVars, srvVars, budgetVars>>

\* addWebsites() after the await of the follow-up fetch.
addWebsitesFetched ==
    \E o \in Pending :
        /\ o.kind = "addWebsites" /\ o.phase = "fetch"
        /\ last' = Step("addWebsitesFetched", o)
        /\ IF o.outcome = "ok"
           THEN /\ chats' = fetchChatOk(o).chats
                /\ currentChat' = fetchChatOk(o).currentChat
           ELSE UNCHANGED <<chats, currentChat>>
        /\ toasts' = IF o.outcome = "neterr" THEN <<"error">> ELSE <<"success">>
        /\ addWebsitesSettles(o)
        /\ UNCHANGED <<authVars, isLoading, uploadingFiles, srvVars, budgetVars>>

Next ==
    \/ login
    \/ fetchUserProfileResponse
    \/ logout
    \/ fetchChatsResponse
    \/ createChat
    \/ createChatResponse
    \/ setCurrentChat
    \/ sendMessage
    \/ sendMessageResponse
    \/ deleteChat
    \/ deleteChatResponse
    \/ renameChat
    \/ renameChatResponse
    \/ uploadDocuments
    \/ uploadDocumentsResponse
    \/ uploadDocumentsFetch
    \/ uploadDocumentsFetched
    \/ addWebsites
    \/ addWebsitesResponse
    \/ addWebsitesFetch
    \/ addWebsitesFetched

Spec == Init /\ [][Next]_vars

\* --------------------------------------------- create, rename, remove alone
\* A signed-in store whose list of sessions was fetched and is empty.
InitCRUD ==
    /\ user = TheUser
    /\ token = TRUE
    /\ authPending = FALSE
    /\ chats = <<>>
    /\ currentChat = Null
    /\ isLoading = FALSE
    /\ uploadingFiles = FALSE
    /\ processingFiles = FALSE
    /\ ops = EmptyBag
    /\ srvChats = <<>>
    /\ nextId = 1
    /\ last = Step("init", NoOp)
    /\ toasts = <<>>
    /\ calls = 0
    /\ logins = 1
    /\ budget = MaxCrudCalls
    /\ batchCap = 0
    /\ files = <<>>
    /\ urls = <<>>
    /\ currentUrl = ""

\* Only create, rename, remove and select, and only requests the service answers with success.
OkStep == last'.op.outcome = "ok"

NextCRUD ==
    \/ createChat /\ OkStep
    \/ createChatResponse /\ OkStep
    \/ setCurrentChat
    \/ deleteChat /\ OkStep
    \/ deleteChatResponse /\ OkStep
    \/ renameChat /\ OkStep
    \/ renameChatResponse /\ OkStep

SpecCRUD == InitCRUD /\ [][NextCRUD]_vars

\* ------------------------------------- rename and message-append together
\* A signed-in store after two creates: session 2 in front of session 1 and
\* active, the service holding the same two sessions.
InitReconcile ==
    /\ user = TheUser
    /\ token = TRUE
    /\ authPending = FALSE
    /\ chats = <<[id |-> 2, title |-> DefaultTitle, messages |-> <<>>, updatedAt |-> "srv"],
                 [id |-> 1, title |-> DefaultTitle, messages |-> <<>>, updatedAt |-> "srv"]>>
    /\ currentChat = chats[1]
    /\ isLoading = FALSE
    /\ uploadingFiles = FALSE
    /\ processingFiles = FALSE
    /\ ops = EmptyBag
    /\ srvChats = chats
    /\ nextId = 3
    /\ last = Step("init", NoOp)
    /\ toasts = <<>>
    /\ calls = 0
    /\ logins = 1
    /\ budget = MaxReconcileCalls
    /\ batchCap = 0
    /\ files = <<>>
    /\ urls = <<>>
    /\ currentUrl = ""

NextReconcile ==
    \/ setCurrentChat
    \/ renameChat
    \/ renameChatResponse
    \/ sendMessage
    \/ sendMessageResponse

SpecReconcile == InitReconcile /\ [][NextReconcile]_vars

\* ------------------------------------------ every issued request settles
\* A signed-in store after one create, its session active.
InitLive ==
    /\ user = TheUser
    /\ token = TRUE
    /\ authPending = FALSE
    /\ chats = <<[id |-> 1, title |-> DefaultTitle, messages |-> <<>>, updatedAt |-> "srv"]>>
    /\ currentChat = chats[1]
    /\ isLoading = FALSE
    /\ uploadingFiles = FALSE
    /\ processingFiles = FALSE
    /\ ops = EmptyBag
    /\ srvChats = chats
    /\ nextId = 2
    /\ last = Step("init", NoOp)
    /\ toasts = <<>>
    /\ calls = 0
    /\ logins = 1
    /\ budget = MaxLiveCalls
    /\ batchCap = 0
    /\ files = <<>>
    /\ urls = <<>>
    /\ currentUrl = ""

\* The operations of the store, called in any order.
NextLive ==
    \/ createChat
    \/ createChatResponse
    \/ setCurrentChat
    \/ sendMessage
    \/ sendMessageResponse
    \/ deleteChat
    \/ deleteChatResponse
    \/ renameChat
    \/ renameChatResponse
    \/ uploadDocuments
    \/ uploadDocumentsResponse
    \/ uploadDocumentsFetch
    \/ uploadDocumentsFetched
    \/ addWebsites
    \/ addWebsitesResponse
    \/ addWebsitesFetch
    \/ addWebsitesFetched

\* Every request that was issued gets its response and every timer fires:
\* the continuation of each await is eventually run.
RequestsSettle ==
    /\ WF_vars(createChatResponse)
    /\ WF_vars(sendMessageResponse)
    /\ WF_vars(deleteChatResponse)
    /\ WF_vars(renameChatResponse)
    /\ WF_vars(uploadDocumentsResponse)
    /\ WF_vars(uploadDocumentsFetch)
    /\ WF_vars(uploadDocumentsFetched)
    /\ WF_vars(addWebsitesResponse)
    /\ WF_vars(addWebsitesFetch)
    /\ WF_vars(addWebsitesFetched)

SpecLive == InitLive /\ [][NextLive]_vars /\ RequestsSettle

\* ---------------------------------------------------------- UploadPanel
\* What the user types in the URL input, and the file selections of the picker
\* (each file by its size in MB).
UrlInputs == {"https://a.com", "not-a-url", " "}

FileSelections == {<<1>>, <<6, 1>>, <<6, 1, 1>>, <<1, 1, 1, 1>>}

parsesAlways(s) == TRUE

\* `new URL(s)` of line 56 returns: s parses as an absolute URL.
parsesAsURL(s) == s = "https://a.com"

removeAt(s, index) == [i \in 1..(Len(s) - 1) |-> IF i < index THEN s[i] ELSE s[i + 1]]

\* The `disabled` attributes of the URL input and of the add button, lines 153 and 159.
urlInputDisabled == processingFiles \/ Len(urls) >= MaxUrls

\* onChange of the URL input, line 151.
setCurrentUrl ==
    /\ ~urlInputDisabled
    /\ \E v \in UrlInputs :
          /\ v # currentUrl
          /\ currentUrl' = v
          /\ last' = Step("setCurrentUrl", [NoOp EXCEPT !.arg = v])
    /\ toasts' = <<>>
    /\ UNCHANGED <<files, urls, authVars, chats, currentChat, flagVars, ops, srvVars, budgetVars>>

\* handleAddUrl(), lines 52-69.
handleAddUrl ==
    LET call == [NoOp EXCEPT !.arg = currentUrl] IN
    /\ ~urlInputDisabled
    /\ IF trim(currentUrl) = ""
       THEN /\ last' = Step("handleAddUrlBlank", call)
            /\ toasts' = <<>>
            /\ UNCHANGED <<urls, currentUrl>>
       ELSE IF ~parsesAsURL(currentUrl)
       THEN /\ last' = Step("handleAddUrlInvalid", call)
            /\ toasts' = <<"error">>
            /\ UNCHANGED <<urls, currentUrl>>
       ELSE IF Len(urls) >= MaxUrls
       THEN /\ last' = Step("handleAddUrlFull", call)
            /\ toasts' = <<"warning">>
            /\ UNCHANGED <<urls, currentUrl>>
       ELSE /\ Len(urls) < batchCap
            /\ last' = Step("handleAddUrl", call)
            /\ toasts' = <<>>
            /\ urls' = Append(urls, currentUrl)
            /\ currentUrl' = ""
    /\ UNCHANGED <<files, authVars, chats, currentChat, flagVars, ops, srvVars, budgetVars>>

\* handleRemoveUrl(index), lines 71-73; its button is disabled as of line 176.
handleRemoveUrl ==
    /\ ~processingFiles
    /\ \E index \in 1..Len(urls) :
          /\ urls' = removeAt(urls, index)
          /\ last' = Step("handleRemoveUrl", NoOp)
    /\ toasts' = <<>>
    /\ UNCHANGED <<files, currentUrl, authVars, chats, currentChat, flagVars, ops, srvVars,
                   budgetVars>>

\* handleFileChange(e), lines 21-46; the picker is disabled as of line 117.
handleFileChange ==
    /\ ~(uploadingFiles \/ processingFiles \/ Len(files) >= MaxFiles)
    /\ \E newFiles \in FileSelections :
          /\ Len(files) + Len(newFiles) <= batchCap
          /\ LET oversizedFiles == SelectSeq(newFiles, LAMBDA size : size > MaxFileMB)
              validFiles == SelectSeq(newFiles, LAMBDA size : size <= MaxFileMB)
              remainingSlots == MaxFiles - Len(files)
             IN IF Len(oversizedFiles) > 0
                THEN /\ toasts' = <<"error">>
                     /\ files' = files \o validFiles
                     /\ last' = Step("handleFileChangeOversized", NoOp)
                ELSE IF Len(files) + Len(newFiles) > MaxFiles
                THEN /\ toasts' = <<"warning">>
                     /\ files' = IF remainingSlots > 0
                                 THEN files \o SubSeq(newFiles, 1, remainingSlots)
                                 ELSE files
                     /\ last' = Step("handleFileChangeFull", NoOp)
                ELSE /\ toasts' = <<>>
                     /\ files' = files \o newFiles
                     /\ last' = Step("handleFileChange", NoOp)
    /\ UNCHANGED <<urls, currentUrl, authVars, chats, currentChat, flagVars, ops, srvVars,
                   budgetVars>>

\* handleRemoveFile(index), lines 48-50; its button is disabled as of line 132.
handleRemoveFile ==
    /\ ~(uploadingFiles \/ processingFiles)
    /\ \E index \in 1..Len(files) :
          /\ files' = removeAt(files, index)
          /\ last' = Step("handleRemoveFile", NoOp)
    /\ toasts' = <<>>
    /\ UNCHANGED <<urls, currentUrl, authVars, chats, currentChat, flagVars, ops, srvVars,
                   budgetVars>>

\* The `disabled` attribute of the upload button, line 190.
handleUploadDisabled ==
    \/ (Len(files) = 0 /\ Len(urls) = 0)
    \/ uploadingFiles
    \/ processingFiles
    \/ currentChat = Null

\* handleUpload() up to its first await, lines 75-93: the store functions it
\* calls are those of the render of the click.
handleUpload ==
    LET call == [NoOp EXCEPT !.panel = TRUE, !.capCur = currentChat, !.capUser = user,
                             !.capUrls = urls]
    IN
    /\ ~handleUploadDisabled
    /\ IF currentChat = Null \/ (Len(files) = 0 /\ Len(urls) = 0)
       THEN /\ toasts' = <<"error">>
            /\ last' = Step("handleUploadRejected", call)
            /\ UNCHANGED <<panelVars, authVars, chats, currentChat, flagVars, ops, srvVars,
                           budgetVars>>
       ELSE IF ~ingestAccepts \/ ~token
       THEN /\ toasts' = (IF Len(files) > 0 /\ ~ingestAccepts THEN <<"error">> ELSE <<>>)
                          \o (IF Len(urls) > 0 /\ ~ingestAccepts THEN <<"error">> ELSE <<>>)
            /\ last' = Step("handleUploadReturned", call)
            /\ files' = <<>>
            /\ urls' = <<>>
            /\ UNCHANGED <<currentUrl, authVars, chats, currentChat, flagVars, ops, srvVars,
                           budgetVars>>
       ELSE IF Len(files) > 0
       THEN uploadDocumentsBy(call)
       ELSE addWebsitesBy([call EXCEPT !.urls = urls])

\* A signed-in store after two creates, session 2 active, and an empty panel.
InitPanel ==
    /\ user = TheUser
    /\ token = TRUE
    /\ authPending = FALSE
    /\ chats = <<[id |-> 2, title |-> DefaultTitle, messages |-> <<>>, updatedAt |-> "srv"],
                 [id |-> 1, title |-> DefaultTitle, messages |-> <<>>, updatedAt |-> "srv"]>>
    /\ currentChat = chats[1]
    /\ isLoading = FALSE
    /\ uploadingFiles = FALSE
    /\ processingFiles = FALSE
    /\ ops = EmptyBag
    /\ srvChats = chats
    /\ nextId = 3
    /\ last = Step("init", NoOp)
    /\ toasts = <<>>
    /\ calls = 0
    /\ logins = 1
    /\ budget = MaxPanelCalls
    /\ batchCap = MaxPanelBatch
    /\ files = <<>>
    /\ urls = <<>>
    /\ currentUrl = ""

NextPanel ==
    \/ setCurrentUrl
    \/ handleAddUrl
    \/ handleRemoveUrl
    \/ handleFileChange
    \/ handleRemoveFile
    \/ handleUpload
    \/ setCurrentChat
    \/ uploadDocumentsResponse
    \/ uploadDocumentsFetch
    \/ uploadDocumentsFetched
    \/ addWebsitesResponse
    \/ addWebsitesFetch
    \/ addWebsitesFetched

SpecPanel == InitPanel /\ [][NextPanel]_vars

\* ------------------------------------------------------------ properties
IsSend(act) == act \in {"sendMessage", "sendMessageRejected", "sendMessageNoToken"}

HasTemp(chat) == \E i \in 1..Len(chat.messages) : chat.messages[i].id = "temp"

\* The number of pending calls of a kind in a bag of calls.
CountOf(b, kind) == BagCardinality([o \in {x \in BagToSet(b) : x.kind = kind} |-> b[o]])

SendCount(b) == CountOf(b, "sendMessage")

\* C1: in every reachable state the active session is unset or has the id of a session in
\* the mapping.
C1_ActiveInMapping == currentChat = Null \/ currentChat.id \in Ids(chats)

\* C2: a step that takes the identity from present to absent leaves the mapping empty and the
\* active session unset, whatever they held and whatever is pending.
C2_LogoutClears ==
    [][(user # NoUser /\ user' = NoUser) => (chats' = <<>> /\ currentChat' = Null)]_vars

C2_Witness ==
    /\ last.act = "logout"
    /\ last.op.capChats # <<>>
    /\ last.op.capCur # Null
    /\ ops # EmptyBag
    /\ chats = <<>>
    /\ currentChat = Null

\* C3: while the identity stays absent, a cleared store stays cleared: no step (a late
\* response in particular) makes the mapping non-empty or sets the active session.
C3_LateResponsesDiscarded ==
    [][(user = NoUser /\ user' = NoUser /\ chats = <<>> /\ currentChat = Null)
          => (chats' = <<>> /\ currentChat' = Null)]_vars

\* C4: at most one message-append request is outstanding at any time, and a sendMessage call
\* made while isLoading is true changes nothing.
C4_OneSendAtATime ==
    [][/\ SendCount(ops') <= 1
       /\ (IsSend(last'.act) /\ isLoading)
             => <<chats, currentChat, ops, isLoading>>' = <<chats, currentChat, ops, isLoading>>]_vars

\* C5: a sendMessage call with no active session, with empty or blank text, or made while
\* isLoading is true issues no request, adds no provisional message and leaves the mapping as
\* it was.
C5_SendPreconditions ==
    [][(/\ IsSend(last'.act)
        /\ (currentChat = Null \/ trim(last'.op.arg) = "" \/ isLoading))
          => <<chats, currentChat, ops>>' = <<chats, currentChat, ops>>]_vars

\* C6: right after a successful sendMessage response, the target session in the mapping, and
\* the active session when it is the target, hold exactly the returned snapshot's messages,
\* none of them provisional, and isLoading is false.
C6_SendReconciles ==
    (last.act = "sendMessageResponse" /\ last.op.outcome = "ok") =>
        /\ \A i \in 1..Len(chats) :
              chats[i].id = last.op.chatId =>
                  chats[i].messages = last.op.resp.messages /\ ~HasTemp(chats[i])
        /\ currentChat.id = last.op.chatId =>
              currentChat.messages = last.op.resp.messages /\ ~HasTemp(currentChat)
        /\ ~isLoading

C6_Witness ==
    /\ last.act = "sendMessageResponse"
    /\ last.op.outcome = "ok"
    /\ last.op.chatId \in Ids(chats)
    /\ currentChat.id = last.op.chatId
    /\ Len(currentChat.messages) = 2
    /\ currentChat.messages[1].role = "user"
    /\ currentChat.messages[2].role = "assistant"

\* C7: a successful sendMessage response leaves the active session as it is when the active
\* session at that time is not the session the message was sent to.
C7_SendKeepsOtherActive ==
    [][(/\ last'.act = "sendMessageResponse"
        /\ last'.op.outcome = "ok"
        /\ currentChat.id # last'.op.chatId)
          => currentChat' = currentChat]_vars

\* C8: when the request of a sendMessage call settles, with success or with failure, isLoading
\* is false.
C8_SendClearsLoading == last.act = "sendMessageResponse" => ~isLoading

C8_Witness ==
    /\ last.act = "sendMessageResponse"
    /\ last.op.outcome = "failed"
    /\ HasTemp(currentChat)
    /\ ~isLoading

\* C9: with only successful create, rename and remove requests, once none is pending the ids
\* in the mapping are exactly those created and not removed (the ids the service holds).
C9_KeysAreCreatedMinusRemoved == ops = EmptyBag => Ids(chats) = Ids(srvChats)

C9_Witness ==
    /\ ops = EmptyBag
    /\ last.act = "deleteChatResponse"
    /\ Ids(chats) = {2}
    /\ nextId = 3

\* C10: after a successful remove of s, the active session is the first entry of the mapping
\* as it now stands (unset if it is empty) when s was active as the response arrived, and is
\* unchanged when it was not.
C10_RemoveMovesActive ==
    [][(/\ last'.act = "deleteChatResponse"
        /\ last'.op.outcome = "ok")
          => currentChat' = IF currentChat.id = last'.op.chatId THEN first(chats')
                            ELSE currentChat]_vars

\* C11: a create, rename or remove whose request fails leaves the mapping and
\* the active session as they were (its call changes neither, and its failure
\* response changes neither: nothing inserted, the entry retained, the prior
\* title kept) and the failure response reports an error.
C11_FailedCrudChangesNothing ==
    [][/\ last'.act \in {"createChat", "renameChat", "deleteChat"}
          => chats' = chats /\ currentChat' = currentChat
       /\ (/\ last'.act \in {"createChatResponse", "renameChatResponse", "deleteChatResponse"}
           /\ last'.op.outcome # "ok")
          => chats' = chats /\ currentChat' = currentChat /\ toasts' = <<"error">>]_vars

\* A remove of a listed session has failed: the entry is still there, an error is up.
C11_Witness ==
    /\ last.act = "deleteChatResponse"
    /\ last.op.outcome = "failed"
    /\ last.op.chatId \in Ids(chats)
    /\ toasts = <<"error">>

\* C12: a successful create puts the returned session at the front of the
\* mapping, keeps the entries that were there in their order behind it, and
\* makes the returned session the active one.
C12_CreateInsertsAtFront ==
    [][(last'.act = "createChatResponse" /\ last'.op.outcome = "ok")
        => /\ chats' = <<last'.op.resp>> \o chats
           /\ currentChat' = last'.op.resp]_vars

\* A second session was created while the first was listed and active.
C12_Witness ==
    /\ last.act = "createChatResponse"
    /\ last.op.outcome = "ok"
    /\ Len(chats) = 2
    /\ chats[1] = last.op.resp
    /\ chats[1].id # chats[2].id
    /\ currentChat = last.op.resp

\* C13: a successful rename of session s makes the mapping entry with id s the
\* server's representation and leaves every other entry and the order as they
\* were; the active session is replaced by that representation exactly when
\* the session active at the arrival of the response is s, so the response
\* never changes which session id is active (stated for responses that arrive
\* while some session is active).
C13_RenameRefreshesActive ==
    [][(last'.act = "renameChatResponse" /\ last'.op.outcome = "ok" /\ currentChat # Null)
        => /\ chats' = replaceAt(chats, last'.op.chatId, last'.op.resp)
           /\ currentChat' = IF currentChat.id = last'.op.chatId
                             THEN last'.op.resp ELSE currentChat
           /\ currentChat'.id = currentChat.id]_vars

\* The response of a rename or of a message-append that reports success.
IsReconcile(step) ==
    step.act \in {"renameChatResponse", "sendMessageResponse"} /\ step.op.outcome = "ok"

\* C14: with a rename and a message-append outstanding at once, on the same
\* session or on different ones, applying their responses in either order
\* keeps the ids of the mapping and their order, leaves every entry that
\* neither targets as it was, and makes each targeted entry a snapshot the
\* server returned for that same id: each of the two responses replaces, in
\* the mapping as it is when the response arrives, exactly the entries with
\* the id it targets by its own snapshot, which carries that id.
C14_ReconcileKeepsOrder ==
    [][IsReconcile(last')
        => /\ Len(chats') = Len(chats)
           /\ last'.op.resp.id = last'.op.chatId
           /\ \A i \in 1..Len(chats) :
                chats'[i] = IF chats[i].id = last'.op.chatId THEN last'.op.resp ELSE chats[i]]_vars

\* A rename and a message-append of session 1 were outstanding together and
\* both are applied, the append first: the rename response is the last step,
\* its snapshot predates the two messages the server holds, and the other
\* entry of the mapping is untouched.
C14_Witness ==
    /\ last.act = "renameChatResponse"
    /\ last.op.outcome = "ok"
    /\ ops = EmptyBag
    /\ Len(chats) = 2
    /\ chats[2] = last.op.resp
    /\ chats[1].id # chats[2].id
    /\ last.op.resp.messages = <<>>
    /\ Len(find(srvChats, last.op.chatId).messages) = 2

\* C15: an accepted sendMessage appends the provisional user message (role
\* user, a local id) as the last message of the active session, keeping the
\* messages before it, and the message is in the store's state no later than
\* the request is issued: after the call step the request is pending and the
\* active session already ends with the provisional message.
C15_ProvisionalAppended ==
    [][last'.act = "sendMessage"
        => /\ currentChat'.id = currentChat.id
           /\ currentChat'.messages = currentChat.messages \o <<TempMessage(last'.op.arg)>>
           /\ TempMessage(last'.op.arg).role = "user"
           /\ TempMessage(last'.op.arg).id = "temp"
           /\ last'.op.chatId = currentChat.id
           /\ ops' = Put(ops, last'.op)
           /\ chats' = chats]_vars

\* The call step of a send has just run: its request is pending and the
\* active session ends with the provisional message.
C15_Witness ==
    /\ last.act = "sendMessage"
    /\ last.op \in Pending
    /\ Len(currentChat.messages) > 0
    /\ currentChat.messages[Len(currentChat.messages)] = TempMessage(last.op.arg)

\* C16: when a sendMessage request fails and the session it was sent to is the
\* active one, the provisional message of that send is still the last message
\* of the active session (so no assistant reply follows it and it was not
\* rolled back), and exactly one error is reported.
C16_ProvisionalStaysLast ==
    (/\ last.act = "sendMessageResponse"
     /\ last.op.outcome # "ok"
     /\ currentChat.id = last.op.chatId)
    => /\ Len(currentChat.messages) > 0
       /\ currentChat.messages[Len(currentChat.messages)] = TempMessage(last.op.arg)
       /\ toasts = <<"error">>

\* The step with which an uploadDocuments call settles: the response of a
\* failed upload request, or the response of its follow-up fetch.
UploadSettled(step) ==
    \/ step.act = "uploadDocumentsFetched"
    \/ step.act = "uploadDocumentsResponse" /\ step.op.outcome # "ok"

\* C17: for an accepted uploadDocuments call the file flag is true from the
\* issue of the upload request until the call settles (it is true whenever a
\* call of that kind is outstanding), and the file flag and the processing
\* flag are both false once the call has settled, whether the upload and the
\* follow-up fetch succeeded or failed.
C17_FileFlagUntilSettled ==
    /\ CountOf(ops, "uploadDocuments") > 0 => uploadingFiles
    /\ UploadSettled(last) => ~uploadingFiles /\ ~processingFiles

\* A step of an accepted uploadDocuments or addWebsites call.
IsIngestStep(step) == step.op.kind \in {"uploadDocuments", "addWebsites"}

\* The response of a follow-up fetch that returned a snapshot.
IsFetchedOk(step) ==
    step.act \in {"uploadDocumentsFetched", "addWebsitesFetched"} /\ step.op.outcome = "ok"

\* The response of an upload/add request that was rejected or unreachable.
IsIngestFailed(step) ==
    step.act \in {"uploadDocumentsResponse", "addWebsitesResponse"} /\ step.op.outcome # "ok"

\* C18: the failure of the upload/add request of an ingestion leaves the
\* mapping and the active session as they were and reports an error; and the
\* only step of an ingestion that changes a session is the reconciliation of
\* its follow-up fetch, which replaces the entry of the snapshot's id and the
\* active session by the snapshot: every other step of an ingestion leaves
\* the mapping and the active session unchanged.
C18_IngestOnlyReconciles ==
    [][IsIngestStep(last')
        => /\ IsFetchedOk(last')
              => /\ chats' = replaceById(chats, last'.op.resp)
                 /\ currentChat' = last'.op.resp
                 /\ last'.op.resp.id = last'.op.chatId
           /\ ~IsFetchedOk(last') => chats' = chats /\ currentChat' = currentChat
           /\ IsIngestFailed(last') => toasts' = <<"error">>]_vars

\* The add request of an addWebsites call on the active session has failed.
C18_Witness ==
    /\ IsIngestFailed(last)
    /\ last.act = "addWebsitesResponse"
    /\ currentChat.id = last.op.chatId
    /\ last.op.chatId \in Ids(chats)
    /\ toasts = <<"error">>

\* The uploadDocuments calls that a step has put in a phase: the calls of that
\* phase with more copies pending after the step than before it.
UploadsEntering(phase, before, after) ==
    {o \in BagToSet(after) : /\ o.kind = "uploadDocuments"
                             /\ o.phase = phase
                             /\ CopiesIn(o, after) > CopiesIn(o, before)}

\* C19: uploadDocuments runs in this order: the file flag is set and the
\* upload request issued; only on the success of that request the processing
\* flag is set and the wait begins; after the wait the follow-up fetch is
\* issued; its snapshot is reconciled. A call starts waiting only by the
\* success response of its upload request and its fetch is issued only from
\* the wait, so after an upload request that did not succeed the call is over:
\* the processing flag is not set and no follow-up fetch is issued.
C19_UploadOrder ==
    [][/\ last'.act = "uploadDocuments"
          => /\ uploadingFiles'
             /\ processingFiles' = processingFiles
             /\ last'.op.phase = "upload"
             /\ ops' = Put(ops, last'.op)
       /\ last'.act = "uploadDocumentsResponse"
          => /\ last'.op \in Pending /\ last'.op.phase = "upload"
             /\ IF last'.op.outcome = "ok"
                THEN /\ processingFiles'
                     /\ ops' = Put(Take(ops, last'.op), [last'.op EXCEPT !.phase = "wait"])
                ELSE /\ ~processingFiles'
                     /\ ops' = Take(ops, last'.op)
       /\ last'.act = "uploadDocumentsFetch"
          => /\ last'.op.phase = "fetch"
             /\ \E w \in Pending : /\ w.kind = "uploadDocuments" /\ w.phase = "wait"
                                   /\ w.chatId = last'.op.chatId
                                   /\ ops' = Put(Take(ops, w), last'.op)
       /\ last'.act = "uploadDocumentsFetched"
          => /\ last'.op \in Pending /\ last'.op.phase = "fetch"
             /\ ops' = Take(ops, last'.op)
             /\ last'.op.outcome = "ok" => currentChat' = last'.op.resp
       /\ UploadsEntering("upload", ops, ops') # {} => last'.act = "uploadDocuments"
       /\ UploadsEntering("wait", ops, ops') # {}
          => last'.act = "uploadDocumentsResponse" /\ last'.op.outcome = "ok"
       /\ UploadsEntering("fetch", ops, ops') # {} => last'.act = "uploadDocumentsFetch"]_vars

\* An uploadDocuments call has run to its end: the snapshot of its follow-up
\* fetch, which holds the system message of the ingestion, is the active session.
C19_Witness ==
    /\ last.act = "uploadDocumentsFetched"
    /\ last.op.outcome = "ok"
    /\ currentChat = last.op.resp
    /\ \E i \in 1..Len(currentChat.messages) : currentChat.messages[i].role = "system"
    /\ ~uploadingFiles /\ ~processingFiles

\* An uploadDocuments call is past its upload request, where lines 276-293
\* hold the processing flag set.
UploadProcessing(b) ==
    \E o \in BagToSet(b) : o.kind = "uploadDocuments" /\ o.phase \in {"wait", "fetch"}

\* C20: the busy flags are independent per kind of operation: a step of an
\* addWebsites call changes neither the file flag nor, while an uploadDocuments
\* call is outstanding that has set it, the processing flag; a step of an
\* uploadDocuments call does not change the processing flag while an
\* addWebsites call is outstanding; and no step of an ingestion changes isLoading.
C20_FlagsIndependent ==
    [][/\ last'.op.kind = "addWebsites"
          => /\ uploadingFiles' = uploadingFiles
             /\ UploadProcessing(ops) => processingFiles' = processingFiles
       /\ (last'.op.kind = "uploadDocuments" /\ CountOf(ops, "addWebsites") > 0)
          => processingFiles' = processingFiles
       /\ IsIngestStep(last') => isLoading' = isLoading]_vars

\* C21: in every reachable state the busy flag of each kind of outstanding
\* request is true: isLoading while a message-append request is outstanding,
\* uploadingFiles while an uploadDocuments call is outstanding, processingFiles
\* while an addWebsites call is outstanding; so no flag goes false before the
\* call it guards has settled.
C21_FlagWhileOutstanding ==
    /\ SendCount(ops) > 0 => isLoading
    /\ CountOf(ops, "uploadDocuments") > 0 => uploadingFiles
    /\ CountOf(ops, "addWebsites") > 0 => processingFiles

\* The steps that are a call of a Store operation, whichever way its guards go.
IsStoreCall(act) ==
    act \in {"createChat", "createChatRejected", "createChatNoToken",
             "renameChat", "renameChatNoToken",
             "deleteChat", "deleteChatNoToken",
             "sendMessage", "sendMessageRejected", "sendMessageNoToken",
             "uploadDocuments", "uploadDocumentsRejected", "uploadDocumentsNoToken",
             "addWebsites", "addWebsitesRejected", "addWebsitesNoToken"}

\* C23: a Store operation called while the identity is absent or no token is
\* stored issues no request and changes neither the mapping, nor the active
\* session, nor a busy flag.
C23_NoIdentityNoRequest ==
    [][(IsStoreCall(last'.act) /\ (user = NoUser \/ ~token))
        => /\ ops' = ops
           /\ chats' = chats
           /\ currentChat' = currentChat
           /\ UNCHANGED flagVars]_vars

\* The steps of handleAddUrl, whichever branch it takes.
IsAddUrl(act) ==
    act \in {"handleAddUrl", "handleAddUrlBlank", "handleAddUrlInvalid", "handleAddUrlFull"}

\* The url lists of the add-websites requests in a bag of calls hold only the
\* well-formed absolute URL of the inputs.
SentUrlsWellFormed(b) ==
    \A o \in BagToSet(b) :
        o.kind = "addWebsites" => \A i \in 1..Len(o.urls) : o.urls[i] = "https://a.com"

C24_IngestPreconditions ==
    [][/\ (/\ last'.act \in {"uploadDocuments", "uploadDocumentsRejected",
                             "uploadDocumentsNoToken"}
           /\ (currentChat = Null \/ CountOf(ops, "uploadDocuments") > 0))
          => ops' = ops /\ UNCHANGED flagVars /\ toasts' # <<>>
       /\ (/\ last'.act \in {"addWebsites", "addWebsitesRejected", "addWebsitesNoToken"}
           /\ (currentChat = Null \/ CountOf(ops, "addWebsites") > 0))
          => ops' = ops /\ UNCHANGED flagVars /\ toasts' # <<>>]_vars

\* C25: when every issued request settles, every call of a store operation
\* settles (each settling step reports its failure, if any, see C11, C16 and
\* C18): whenever calls are outstanding, a state with none outstanding
\* follows; and in every state with no call outstanding the three busy flags
\* are false.
C25_SettlesAndClearsFlags ==
    /\ [](ops = EmptyBag => ~isLoading /\ ~uploadingFiles /\ ~processingFiles)
    /\ (ops # EmptyBag) ~> (ops = EmptyBag)

\* Three calls were issued and all have settled, the last one an ingestion
\* that ran to its follow-up fetch: the flags are false.
C25_Witness ==
    /\ ops = EmptyBag
    /\ calls = budget
    /\ last.act = "uploadDocumentsFetched"
    /\ ~isLoading /\ ~uploadingFiles /\ ~processingFiles

\* The steps that resume a call after the response of one of its requests.
IsResponse(act) ==
    act \in {"fetchChatsResponse", "createChatResponse", "renameChatResponse",
             "deleteChatResponse", "sendMessageResponse", "uploadDocumentsResponse",
             "addWebsitesResponse", "uploadDocumentsFetched", "addWebsitesFetched"}

\* C26: an operation in which a request fails (a non-success response or a
\* network failure, the follow-up fetch of an ingestion included) reports
\* exactly one error and no success: the step that receives the failure
\* raises just the error; and a step that receives a success raises no error.
C26_OneErrorPerFailure ==
    [][IsResponse(last'.act)
        => IF last'.op.outcome # "ok"
           THEN toasts' = <<"error">>
           ELSE \A i \in 1..Len(toasts') : toasts'[i] # "error"]_vars

\* ------------------------------------------------------------------ select
\* The session objects a caller of the context may hold: every session as the
\* service first listed it.
SessionObjects ==
    {[id |-> i, title |-> DefaultTitle, messages |-> <<>>, updatedAt |-> "srv"] : i \in 1..MaxChats}

\* setCurrentChat as the provider exposes it (line 364): the state setter of
\* line 55 itself, which takes a session object and looks at no list.
setCurrentChatOnStore ==
    \E chat \in SessionObjects :
        /\ currentChat # chat
        /\ currentChat' = chat
        /\ last' = Step("setCurrentChatOnStore", [NoOp EXCEPT !.chatId = chat.id])
        /\ toasts' = <<>>
        /\ UNCHANGED <<panelVars, authVars, chats, flagVars, ops, srvVars, budgetVars>>

\* The store after two creates, with select, rename and remove as its calls.
NextSelect ==
    \/ setCurrentChat
    \/ setCurrentChatOnStore
    \/ renameChat
    \/ renameChatResponse
    \/ deleteChat
    \/ deleteChatResponse

SpecSelect == InitReconcile /\ [][NextSelect]_vars

IsSelect(act) == act \in {"setCurrentChat", "setCurrentChatOnStore"}

\* C27: select(x) issues no request and changes nothing but the active
\* reference, which becomes the mapping entry with id x when there is one and
\* stays as it was when there is none.
C27_SelectIsLocal ==
    [][IsSelect(last'.act)
        => /\ ops' = ops
           /\ chats' = chats
           /\ UNCHANGED flagVars
           /\ currentChat' = IF last'.op.chatId \in Ids(chats)
                             THEN find(chats, last'.op.chatId)
                             ELSE currentChat]_vars

\* A step that replaces a session by a snapshot from the service: the
\* successful response of a rename, a message-append or a follow-up fetch.
IsSnapshot(step) ==
    /\ step.act \in {"renameChatResponse", "sendMessageResponse",
                     "uploadDocumentsFetched", "addWebsitesFetched"}
    /\ step.op.outcome = "ok"

IsPrefix(s, t) == Len(s) <= Len(t) /\ \A i \in 1..Len(s) : t[i] = s[i]

\* C28: while the same session stays active, every step that is not the
\* arrival of a server snapshot only appends to its visible messages: the
\* sequence before the step is a prefix of the sequence after it.
C28_OnlyAppendsLocally ==
    [][(/\ currentChat # Null
        /\ currentChat'.id = currentChat.id
        /\ ~IsSnapshot(last'))
        => IsPrefix(currentChat.messages, currentChat'.messages)]_vars

Issued(before, after) == {w \in BagToSet(after) : CopiesIn(w, after) > CopiesIn(w, before)}

\* The calls a step resumes: the call records it takes from the pending ones.
Resumed(before, after) == {o \in BagToSet(before) : CopiesIn(o, after) < CopiesIn(o, before)}

\* C30: the message-append request of sendMessage and the upload/add request
\* of an ingestion carry the id of the session that is active when the
\* operation is invoked (the active session of the state before the step or,
\* where the same step first installs a snapshot, of the state after it), and
\* the follow-up fetch of an ingestion carries the id of the request it
\* follows, whatever session is active by then.
C30_ScopedToSessionAtCall ==
    [][\A w \in Issued(ops, ops') :
          /\ w.phase \in {"append", "upload"}
                => w.chatId \in {currentChat.id, currentChat'.id}
          /\ w.phase = "fetch"
                => \E o \in Resumed(ops, ops') : o.kind = w.kind /\ o.chatId = w.chatId]_vars

\* C31: the list response makes the first fetched session active only when no
\* session is active as the response is applied; a session made active while
\* the list request was in flight stays active.
C31_ListKeepsActive ==
    [][last'.act = "fetchChatsResponse"
        => currentChat' = IF /\ last'.op.outcome = "ok"
                             /\ currentChat = Null
                             /\ Len(last'.op.respList) > 0
                          THEN last'.op.respList[1]
                          ELSE currentChat]_vars

\* C32: during the first sign-in every session in the mapping was created
\* while the list request was in flight; those that the list response does
\* not contain are still in the mapping after the response has been applied.
C32_ListKeepsCreated ==
    [][(/\ last'.act = "fetchChatsResponse"
        /\ last'.op.outcome = "ok"
        /\ logins = 1
        /\ user # NoUser)
        => (Ids(chats) \ Ids(last'.op.respList)) \subseteq Ids(chats')]_vars

\* The steps that apply the response of a rename, a message-append or an
\* ingestion request.
IsLateResponse(act) ==
    act \in {"renameChatResponse", "sendMessageResponse",
             "uploadDocumentsResponse", "uploadDocumentsFetch", "uploadDocumentsFetched",
             "addWebsitesResponse", "addWebsitesFetch", "addWebsitesFetched"}

\* C33: the response of a rename, sendMessage or ingestion that targeted
\* session s never adds an entry with id s to a mapping that has none, so a
\* session that was removed does not come back with it.
C33_RemovedStaysRemoved ==
    [][(IsLateResponse(last'.act) /\ last'.op.chatId \notin Ids(chats))
        => last'.op.chatId \notin Ids(chats')]_vars

\* Session s was removed on the service and the remove response has been
\* applied; then the successful response of a request on s, issued before the
\* remove, was applied, and s is not in the mapping.
C33_Witness ==
    /\ last.act \in {"renameChatResponse", "sendMessageResponse", "uploadDocumentsFetched"}
    /\ last.op.outcome = "ok"
    /\ user # NoUser
    /\ last.op.chatId \notin Ids(srvChats)
    /\ CountOf(ops, "deleteChat") = 0
    /\ last.op.chatId \notin Ids(chats)

\* C34: when the step just taken applied the successful response of an
\* operation on the active session, that session is in the mapping and no
\* call is outstanding, the active session equals the mapping entry of its id.
C34_CopiesAgree ==
    (/\ ops = EmptyBag
     /\ IsSnapshot(last)
     /\ currentChat # Null
     /\ last.op.chatId = currentChat.id
     /\ currentChat.id \in Ids(chats))
    => find(chats, currentChat.id) = currentChat

\* C35: an ingestion raises its success notification only when its follow-up
\* fetch succeeded and the mapping holds the returned snapshot afterwards.
C35_SuccessOnlyWhenReconciled ==
    (/\ last.act \in {"uploadDocumentsFetched", "addWebsitesFetched"}
     /\ \E i \in 1..Len(toasts) : toasts[i] = "success")
    => /\ last.op.outcome = "ok"
       /\ find(chats, last.op.chatId) = last.op.resp

\* ------------------------------------------------- the panel's batches alone
\* The upload panel over an idle store: the user edits the two batches and
\* never uploads.
InitBatch ==
    /\ user = TheUser
    /\ token = TRUE
    /\ authPending = FALSE
    /\ chats = <<[id |-> 1, title |-> DefaultTitle, messages |-> <<>>, updatedAt |-> "srv"]>>
    /\ currentChat = chats[1]
    /\ isLoading = FALSE
    /\ uploadingFiles = FALSE
    /\ processingFiles = FALSE
    /\ ops = EmptyBag
    /\ srvChats = chats
    /\ nextId = 2
    /\ last = Step("init", NoOp)
    /\ toasts = <<>>
    /\ calls = 0
    /\ logins = 1
    /\ budget = 0
    /\ batchCap = MaxBatch
    /\ files = <<>>
    /\ urls = <<>>
    /\ currentUrl = ""

NextBatch ==
    \/ setCurrentUrl
    \/ handleAddUrl
    \/ handleRemoveUrl
    \/ handleFileChange
    \/ handleRemoveFile

SpecBatch == InitBatch /\ [][NextBatch]_vars

\* C36: after any sequence of file selections, file removals, URL additions
\* and URL removals the file batch holds at most 10 files, none larger than
\* 5 MB, and the URL batch holds at most 10 URLs.
C36_BatchesWithinLimits ==
    /\ Len(files) <= MaxFiles
    /\ \A i \in 1..Len(files) : files[i] <= MaxFileMB
    /\ Len(urls) <= MaxUrls

====
